---- MODULE Spec2Model ----
(***************************************************************************)
(* documents-mcp: the HTTP/SSE session table (src/server/http.ts), the     *)
(* result envelope adapter (src/server/register-tools.ts createHandler,    *)
(* src/server/utils/tool-adapter.ts wrapToolHandler) and the input         *)
(* contracts of the document tools (src/tools/*.ts), the tool handlers     *)
(* with the AI analysis helper (src/lib/ai.ts), and the stdio server       *)
(* (src/server/stdio.ts).                                                  *)
(***************************************************************************)
EXTENDS Integers, Sequences, FiniteSets, TLC

(* ---------------------------- bounds ----------------------------------- *)
\* SSE connections opened in one run
MaxConns == 2
\* POST /messages requests issued in one run
MaxReqs == 2
\* request lines read from stdin in one run of the stdio server
MaxLines == 3
\* method calls made on one DocumentsMcpClient
MaxCalls == 3

(* ------------------------- HTTP/SSE server ----------------------------- *)
VARIABLES
  transports,   \* http.ts:29  Map<string, SSEServerTransport>: key -> connection
  conns,        \* the SSE connections opened so far: key, transport id, open
  nextId,       \* crypto.randomUUID(): the next identifier never handed out
  reqs,         \* the POST /messages requests: input, position, response
  invoked,      \* per connection: requests whose handlePostMessage was called
  dispatched,   \* per connection: requests handed to its protocol server
  health,       \* the last answer of GET /health
  call          \* the last call of a wrapped tool handler and its outcome

httpVars == <<transports, conns, nextId, reqs, invoked, dispatched, health>>
vars == <<transports, conns, nextId, reqs, invoked, dispatched, health, call>>

\* req.query.sessionId when the query parameter is missing (undefined)
AbsentSid == -1
\* req.query.sessionId for "?sessionId=" (the empty string)
EmptySid == -2

\* every identifier randomUUID can hand out in a bounded run, and one more
\* that is never handed out
IdPool == 0 .. (2 * MaxConns)
SidInputs == {AbsentSid, EmptySid} \cup IdPool

\* JavaScript truthiness of the sessionId query value (http.ts:67 !sessionId)
SidFalsyNever(sid) == FALSE
SidFalsy(sid) == sid \in {AbsentSid, EmptySid}

MissingSessionIdBody == "Missing sessionId query parameter"
SessionNotFoundBody == "Session not found. Connect to /sse first."
InternalErrorBody == "Internal server error"
AcceptedBody == "Accepted"

\* Map.prototype.set
MapSet(m, k, v) == [x \in (DOMAIN m) \cup {k} |-> IF x = k THEN v ELSE m[x]]
\* Map.prototype.get: 0 stands for undefined (connections are numbered from 1)
MapGet(m, k) == IF k \in DOMAIN m THEN m[k] ELSE 0
\* Map.prototype.delete: the map afterwards and the boolean it returns;
\* it never throws
MapDeleteClearsAll(m, k) == [map |-> [x \in {} |-> 0], ret |-> k \in DOMAIN m]
MapDelete(m, k) ==
  [map |-> [x \in (DOMAIN m) \ {k} |-> m[x]], ret |-> k \in DOMAIN m]

\* the listener of res.on("close") of the connection stored under key
OnCloseKeepsEntry(m, key) == m
OnClose(m, key) == MapDelete(m, key).map

\* transports.get(sessionId) of POST /messages
LookupAnyOpen(m, sid) ==
  IF sid \in DOMAIN m THEN m[sid]
  ELSE IF DOMAIN m # {} THEN m[CHOOSE k \in DOMAIN m : TRUE] ELSE 0
Lookup(m, sid) == MapGet(m, sid)

\* the id the client of connection c learns from the endpoint event of its
\* transport: new SSEServerTransport("/messages", res) is built without the
\* key generated at http.ts:37 and nothing writes that key to res, so the
\* transport announces the identifier it drew itself
AnnouncedId(c) == conns[c].tid

OpenConns == {c \in 1 .. Len(conns) : conns[c].open}
ClosedConns == {c \in 1 .. Len(conns) : ~conns[c].open}

\* the modules of the six tools in the order registerAllTools registers
\* them, and the bindings each module exports
ToolModules ==
  <<"create-pdf", "create-docx", "create-pptx",
    "read-pdf", "read-docx", "read-pptx">>
Exports(module) ==
  IF module = "read-pdf" THEN {"schema", "metadata", "default"}
  ELSE {"name", "schema", "description", "metadata", "default"}
\* the value of `import { name as ... }` in register-tools.ts: the string the
\* module exports under that binding, undefined when it exports none
NoName == "undefined"
ImportedName(module) == IF "name" \in Exports(module) THEN module ELSE NoName

\* registerAllTools(server): one server.tool(name, ...) per module, in order
registerAllTools ==
  [i \in 1 .. Len(ToolModules) |-> ImportedName(ToolModules[i])]
\* createConfiguredServer(): the tool names of the new server
createConfiguredServer == registerAllTools
\* the exported toolList, by name
toolList == [i \in 1 .. Len(ToolModules) |-> ImportedName(ToolModules[i])]
\* the tools array of GET /health
HealthTools ==
  <<"create-pdf", "create-docx", "create-pptx",
    "read-pdf", "read-docx", "read-pptx">>

HttpInit ==
  /\ transports = [x \in {} |-> 0]
  /\ conns = <<>>
  /\ nextId = 0
  /\ reqs = <<>>
  /\ invoked = [c \in 1 .. MaxConns |-> <<>>]
  /\ dispatched = [c \in 1 .. MaxConns |-> <<>>]
  /\ health = [kind |-> "none"]

\* GET /sse
SseOpen ==
  /\ Len(conns) < MaxConns
  /\ LET sessionId == nextId
         c == Len(conns) + 1
     IN /\ conns' = Append(conns, [key |-> sessionId, tid |-> nextId + 1,
                                   open |-> TRUE,
                                   tools |-> createConfiguredServer])
        /\ transports' = MapSet(transports, sessionId, c)
        /\ nextId' = nextId + 2
  /\ UNCHANGED <<reqs, invoked, dispatched, health, call>>

\* the "close" event of the response stream of connection c
SseClose(c) ==
  /\ c \in OpenConns
  /\ conns' = [conns EXCEPT ![c].open = FALSE]
  /\ transports' = OnClose(transports, conns[c].key)
  /\ UNCHANGED <<nextId, reqs, invoked, dispatched, health, call>>

\* GET /health
Health ==
  /\ health' = [kind |-> "ok", status |-> "ok",
                activeSessions |-> Cardinality(DOMAIN transports),
                tools |-> HealthTools,
                open |-> Cardinality(OpenConns),
                closed |-> Cardinality(ClosedConns)]
  /\ UNCHANGED <<transports, conns, nextId, reqs, invoked, dispatched, call>>

\* the requests answered with an error status so far
FailStatuses == {400, 404, 500}
FailedReqs == {r \in 1 .. Len(reqs) : reqs[r].status \in FailStatuses}

\* what is known of the posted id when the request arrives
OwnersOpen(sid) ==
  {c \in OpenConns : AnnouncedId(c) = sid}
KeyOpen(sid) ==
  {c \in OpenConns : conns[c].key = sid}
OfClosed(sid) ==
  \E c \in ClosedConns : sid \in {conns[c].key, conns[c].tid}

\* POST /messages?sessionId=sid, up to its await (or its early return)
PostMessages(sid) ==
  /\ Len(reqs) < MaxReqs
  /\ LET r == Len(reqs) + 1
         transport == Lookup(transports, sid)
         base == [sid |-> sid, conn |-> 0, status |-> 0, body |-> "",
                  phase |-> "done", forward |-> "none", escaped |-> FALSE,
                  inTable |-> sid \in DOMAIN transports,
                  announcedBy |-> OwnersOpen(sid),
                  keyOf |-> KeyOpen(sid),
                  ofClosed |-> OfClosed(sid),
                  afterFailure |-> FailedReqs # {},
                  handler |-> "none", deliveredTo |-> {},
                  afterClose |-> FALSE]
     IN IF SidFalsy(sid)
        THEN /\ reqs' = Append(reqs, [base EXCEPT !.status = 400,
                                        !.body = MissingSessionIdBody])
             /\ UNCHANGED invoked
        ELSE IF transport = 0
        THEN /\ reqs' = Append(reqs, [base EXCEPT !.status = 404,
                                        !.body = SessionNotFoundBody])
             /\ UNCHANGED invoked
        ELSE /\ reqs' = Append(reqs, [base EXCEPT !.conn = transport,
                                        !.phase = "awaiting"])
             /\ invoked' = [invoked EXCEPT
                              ![transport] = Append(@, r)]
  /\ UNCHANGED <<transports, conns, nextId, dispatched, health, call>>

\* the catch clause of POST /messages: log, then answer 500; nothing is
\* thrown again, so the promise of the route handler resolves
CatchClauseRethrows(req) == [req EXCEPT !.phase = "done", !.escaped = TRUE]
CatchClause(req) ==
  [req EXCEPT !.phase = "done", !.status = 500, !.body = InternalErrorBody]

\* await transport.handlePostMessage(req, res) resolves: the transport has
\* passed the message to its protocol server and answered the request
HandlePostMessageReturns(r) ==
  /\ r \in 1 .. Len(reqs)
  /\ reqs[r].phase = "awaiting"
  /\ reqs' = [reqs EXCEPT ![r].phase = "done", ![r].status = 202,
                          ![r].body = AcceptedBody,
                          ![r].forward = "resolved",
                          ![r].handler = "running"]
  /\ dispatched' = [dispatched EXCEPT ![reqs[r].conn] = Append(@, r)]
  /\ UNCHANGED <<transports, conns, nextId, invoked, health, call>>

\* the connection a reply is written to: GET /sse builds one protocol server
\* per connection and connects it to the transport of that connection's
\* response stream, so a reply leaves on the stream its request belongs to
ReplyTargetLatest(r) == Len(conns)
ReplyTarget(r) == reqs[r].conn

\* the tool handler started by request r settles and its server sends the
\* reply; nothing is written once the stream has closed
ToolHandlerCompletes(r) ==
  /\ r \in 1 .. Len(reqs)
  /\ reqs[r].handler = "running"
  /\ LET t == ReplyTarget(r)
     IN reqs' = [reqs EXCEPT
                  ![r].handler = "finished",
                  ![r].deliveredTo = IF conns[t].open THEN {t} ELSE {},
                  ![r].afterClose = ~conns[reqs[r].conn].open]
  /\ UNCHANGED <<transports, conns, nextId, invoked, dispatched, health, call>>

\* await transport.handlePostMessage(req, res) rejects: the catch clause
HandlePostMessageThrowsDropsSession(r) ==
  /\ r \in 1 .. Len(reqs)
  /\ reqs[r].phase = "awaiting"
  /\ reqs' = [reqs EXCEPT
               ![r] = CatchClause([@ EXCEPT !.forward = "rejected"])]
  /\ transports' = MapDelete(transports, conns[reqs[r].conn].key).map
  /\ UNCHANGED <<conns, nextId, invoked, dispatched, health, call>>
HandlePostMessageThrows(r) ==
  /\ r \in 1 .. Len(reqs)
  /\ reqs[r].phase = "awaiting"
  /\ reqs' = [reqs EXCEPT
               ![r] = CatchClause([@ EXCEPT !.forward = "rejected"])]
  /\ UNCHANGED <<transports, conns, nextId, invoked, dispatched, health, call>>

(* ----------------------- session table claims -------------------------- *)
InvokedAnywhere(r) ==
  \E c \in 1 .. MaxConns :
    \/ \E i \in 1 .. Len(invoked[c]) : invoked[c][i] = r
    \/ \E i \in 1 .. Len(dispatched[c]) : dispatched[c][i] = r

\* C1 (as claimed): a POST /messages carrying the id a client was allocated
\* on GET /sse, made while that SSE connection is open, is forwarded to that
\* session's transport: never answered 404, never given to another session.
C1_AllocatedIdIsRouted ==
  \A r \in 1 .. Len(reqs) :
    \A c \in reqs[r].announcedBy :
      /\ reqs[r].status # 404
      /\ reqs[r].conn = c

\* C7: a POST /messages whose sessionId names no entry of the session table
\* is answered 404 with the 'session not found' body, and no transport,
\* protocol server or handler is invoked for it.
C7_UnknownSessionIs404 ==
  \A r \in 1 .. Len(reqs) :
    (~SidFalsy(reqs[r].sid) /\ ~reqs[r].inTable) =>
      /\ reqs[r].status = 404
      /\ reqs[r].body = SessionNotFoundBody
      /\ reqs[r].conn = 0
      /\ ~InvokedAnywhere(r)

C7_Witness ==
  \E r \in 1 .. Len(reqs) :
    /\ ~SidFalsy(reqs[r].sid) /\ ~reqs[r].inTable
    /\ reqs[r].status = 404
    /\ OpenConns # {}

\* C8: a POST /messages without a sessionId query parameter is answered 400
\* (not the 404 a lookup would give), and no transport is invoked.
C8_MissingSessionIdIs400 ==
  \A r \in 1 .. Len(reqs) :
    reqs[r].sid = AbsentSid =>
      /\ reqs[r].status = 400
      /\ reqs[r].body = MissingSessionIdBody
      /\ reqs[r].conn = 0
      /\ ~InvokedAnywhere(r)

C8_Witness ==
  \E r \in 1 .. Len(reqs) :
    /\ reqs[r].sid = AbsentSid
    /\ reqs[r].status = 400
    /\ OpenConns # {}

\* C9: once the SSE connection of a session has closed, its id is in the
\* session table never again, and every later POST /messages carrying it is
\* answered 404 'session not found'.
C9_ClosedIsTerminal ==
  /\ \A c \in ClosedConns :
       /\ conns[c].key \notin DOMAIN transports
       /\ conns[c].tid \notin DOMAIN transports
  /\ \A r \in 1 .. Len(reqs) :
       reqs[r].ofClosed =>
         /\ reqs[r].status = 404
         /\ reqs[r].body = SessionNotFoundBody
         /\ reqs[r].conn = 0

C9_Witness ==
  \E r \in 1 .. Len(reqs) :
    \E c \in ClosedConns :
      /\ reqs[r].ofClosed
      /\ reqs[r].sid = conns[c].key
      /\ reqs[r].status = 404
      /\ OpenConns # {}

\* C10: the close listener is idempotent: for an id that is already closed
\* or was never opened it leaves the session table as it is, applying it
\* twice is applying it once, and it never touches the entry of another id.
C10_CloseIdempotent ==
  \A id \in IdPool :
    LET once == OnClose(transports, id)
    IN /\ (id \notin DOMAIN transports => once = transports)
       /\ OnClose(once, id) = once
       /\ \A k \in (DOMAIN transports) \ {id} :
            k \in DOMAIN once /\ once[k] = transports[k]
       /\ MapDelete(transports, id).ret = (id \in DOMAIN transports)

C10_Witness ==
  /\ ClosedConns # {}
  /\ OpenConns # {}
  /\ \E c \in ClosedConns : OnClose(transports, conns[c].key) = transports

\* C11: in every reachable state the activeSessions value reported by
\* GET /health equals the number of SSE connections opened and not yet closed
\* (no entry outlives its connection, no open connection lacks an entry), and
\* serving GET /health changes no state of the server.
C11_TableMatchesOpen ==
  /\ Cardinality(DOMAIN transports) = Cardinality(OpenConns)
  /\ \A c \in OpenConns : MapGet(transports, conns[c].key) = c
  /\ \A k \in DOMAIN transports : transports[k] \in OpenConns
  /\ health.kind = "ok" => health.activeSessions = health.open
C11_HealthIsOpenCount ==
  /\ []C11_TableMatchesOpen
  /\ [][health' # health =>
          UNCHANGED <<transports, conns, nextId, reqs, invoked, dispatched>>]_vars

C11_Witness ==
  /\ health.kind = "ok"
  /\ health.activeSessions = 1
  /\ health.closed = 1

\* C12 (as claimed): the tool names registered on every protocol-server
\* instance are exactly create-pdf, create-docx, create-pptx, read-pdf,
\* read-docx, read-pptx, each once, in that order, and they equal both the
\* exported toolList and the static tool list reported by GET /health.
SixToolNames ==
  <<"create-pdf", "create-docx", "create-pptx",
    "read-pdf", "read-docx", "read-pptx">>
C12_RegisteredNamesAreTheSix ==
  \A c \in 1 .. Len(conns) :
    /\ conns[c].tools = SixToolNames
    /\ conns[c].tools = toolList
    /\ conns[c].tools = HealthTools

\* C15 (as claimed): for a single session, inbound messages are processed
\* one at a time in arrival order: the handling of a message completes before
\* the handling of the next message posted to the same session starts, even
\* when two POST /messages for that session overlap.
InHandling(c) ==
  {r \in 1 .. Len(reqs) : reqs[r].conn = c /\ reqs[r].phase = "awaiting"}
C15_OneAtATimeInOrder ==
  \A c \in 1 .. MaxConns :
    /\ Cardinality(InHandling(c)) <= 1
    /\ \A i, j \in 1 .. Len(dispatched[c]) :
         i < j => dispatched[c][i] < dispatched[c][j]

\* C16: a failing request (400, 404, 500) affects only that request: the step
\* that fails it leaves the session table, every connection and every other
\* request unchanged, and a later request carrying the key of an open session
\* is still forwarded to that session.
FailsIn(r, before, after) ==
  /\ r \in 1 .. Len(after)
  /\ after[r].status \in FailStatuses
  /\ (r \in 1 .. Len(before) => before[r].status \notin FailStatuses)
C16_StillServed ==
  \A r \in 1 .. Len(reqs) :
    (reqs[r].afterFailure /\ reqs[r].keyOf # {}) =>
      /\ reqs[r].conn \in reqs[r].keyOf
      /\ reqs[r].status \notin {400, 404}
Running == \A r \in 1 .. Len(reqs) : ~reqs[r].escaped
C17_ForwardFailureIs500 ==
  /\ Running
  /\ \A r \in 1 .. Len(reqs) :
       reqs[r].forward = "rejected" =>
         /\ reqs[r].status = 500
         /\ reqs[r].body = InternalErrorBody
         /\ reqs[r].phase = "done"
         /\ reqs[r].conn \in 1 .. Len(conns)

C17_Witness ==
  \E r \in 1 .. Len(reqs) :
    /\ reqs[r].forward = "rejected"
    /\ reqs[r].status = 500
    /\ reqs[r].conn \in OpenConns

\* the requests whose tool handler is running although the SSE connection
\* of their session has closed
Orphaned ==
  {r \in 1 .. Len(reqs) :
     reqs[r].handler = "running" /\ ~conns[reqs[r].conn].open}

\* C25: when an SSE connection closes while a tool handler for that session
\* is still in flight, the session's table entry is removed at once, the
\* handler is not cancelled and runs to completion, and its reply is not
\* delivered to any other session.
C25_CloseLeavesHandlerRunning ==
  /\ \A r \in Orphaned :
       /\ conns[reqs[r].conn].key \notin DOMAIN transports
       /\ \A k \in DOMAIN transports : transports[k] # reqs[r].conn
       /\ ENABLED ToolHandlerCompletes(r)
  /\ \A r \in 1 .. Len(reqs) :
       /\ reqs[r].forward = "resolved" =>
            reqs[r].handler \in {"running", "finished"}
       /\ reqs[r].deliveredTo \subseteq {reqs[r].conn}
       /\ reqs[r].afterClose =>
            /\ reqs[r].handler = "finished"
            /\ reqs[r].deliveredTo = {}

C25_Witness ==
  \E r \in 1 .. Len(reqs) :
    /\ reqs[r].handler = "finished"
    /\ reqs[r].afterClose
    /\ reqs[r].deliveredTo = {}
    /\ OpenConns # {}
    /\ conns[reqs[r].conn].key \notin DOMAIN transports


(* ------------------------- JavaScript values --------------------------- *)
\* A value is a tagged record; a string is a sequence of atoms, so that
\* serialising (quoting, escaping) and parsing are real conversions.
JS(t, v) == [t |-> t, v |-> v, props |-> <<>>]
Undefined == JS("undefined", <<>>)
JNull == JS("null", <<>>)
JTrue == JS("boolean", <<"true">>)
JFalse == JS("boolean", <<"false">>)
Str(toks) == JS("string", toks)
Num(tok) == JS("number", <<tok>>)
BigIntVal == JS("bigint", <<"1">>)
Fn == JS("function", <<>>)
\* an array literal; v lists what its elements are
Arr(v) == JS("array", v)
\* an object literal: props is a sequence of [k, val], val a scalar
Obj(props) == [t |-> "object", v |-> <<>>, props |-> props]
\* new Error(message) and its subclasses (TypeError, ZodError)
ErrorObj(msg) == JS("error", msg)
\* Object.create(null): an object that has no toString and no valueOf
BareObj == JS("bareobject", <<>>)

RECURSIVE Flatten(_)
Flatten(ss) == IF ss = <<>> THEN <<>> ELSE Head(ss) \o Flatten(Tail(ss))

\* property read o[k]; TypeError on undefined and null
CanRead(o) == o.t \notin {"undefined", "null"}
Get(o, k) ==
  IF o.t = "object" /\ \E i \in 1 .. Len(o.props) : o.props[i].k = k
  THEN o.props[CHOOSE i \in 1 .. Len(o.props) :
                 /\ o.props[i].k = k
                 /\ \A j \in (i + 1) .. Len(o.props) : o.props[j].k # k].val
  ELSE Undefined
ReadErrorMessage(o, k) ==
  <<"Cannot read properties of ", o.t, " (reading '", k, "')">>

\* ToBoolean
Truthy(v) ==
  CASE v.t \in {"undefined", "null"} -> FALSE
    [] v.t = "boolean" -> v.v = <<"true">>
    [] v.t = "string" -> v.v # <<>>
    [] v.t = "number" -> v.v # <<"0">>
    [] OTHER -> TRUE

\* String(v): the completion (a string, or a raised TypeError)
StringOfTotal(v) == [raised |-> FALSE, val |-> v.v]
StringOf(v) ==
  CASE v.t = "string" -> [raised |-> FALSE, val |-> v.v]
    [] v.t \in {"undefined", "null"} -> [raised |-> FALSE, val |-> <<v.t>>]
    [] v.t \in {"boolean", "number", "bigint"} ->
         [raised |-> FALSE, val |-> v.v]
    [] v.t = "function" -> [raised |-> FALSE, val |-> <<"function () {}">>]
    [] v.t = "object" -> [raised |-> FALSE, val |-> <<"[object Object]">>]
    [] v.t = "array" -> [raised |-> FALSE, val |-> v.v]
    [] v.t = "error" -> [raised |-> FALSE, val |-> <<"Error: ">> \o v.v]
    [] OTHER ->
         [raised |-> TRUE,
          val |-> <<"Cannot convert object to primitive value">>]

(* ------------------------------ JSON ----------------------------------- *)
Quote == "\""
EscapeAtom(a) ==
  IF a = Quote THEN "\\\"" ELSE IF a = "\\" THEN "\\\\" ELSE a
UnescapeAtom(a) ==
  IF a = "\\\"" THEN Quote ELSE IF a = "\\\\" THEN "\\" ELSE a
Escape(toks) == [i \in 1 .. Len(toks) |-> EscapeAtom(toks[i])]
Unescape(toks) == [i \in 1 .. Len(toks) |-> UnescapeAtom(toks[i])]

\* JSON.stringify of a scalar: the text, or nothing for values JSON drops
Dropped(v) == v.t \in {"undefined", "function"}
ScalarText(v) ==
  CASE v.t = "string" -> <<Quote>> \o Escape(v.v) \o <<Quote>>
    [] v.t = "null" -> <<"null">>
    [] v.t \in {"boolean", "number"} -> v.v
    [] v.t = "array" -> <<"[">> \o v.v \o <<"]">>
    [] OTHER -> <<"{", "}">>

RECURSIVE MembersText(_, _)
MembersText(props, first) ==
  IF props = <<>> THEN <<>>
  ELSE IF Dropped(Head(props).val) THEN MembersText(Tail(props), first)
  ELSE (IF first THEN <<>> ELSE <<",">>)
       \o <<Quote, Head(props).k, Quote, ":">>
       \o ScalarText(Head(props).val)
       \o MembersText(Tail(props), FALSE)

HasBigInt(v) ==
  \/ v.t = "bigint"
  \/ \E i \in 1 .. Len(v.props) : v.props[i].val.t = "bigint"

\* JSON.stringify(v, null, 2): a string, undefined, or a raised TypeError
\* (indentation is not modelled)
JSONstringify(v) ==
  IF HasBigInt(v)
  THEN [raised |-> TRUE,
        val |-> ErrorObj(<<"Do not know how to serialize a BigInt">>)]
  ELSE IF Dropped(v) THEN [raised |-> FALSE, val |-> Undefined]
  ELSE IF v.t = "object"
  THEN [raised |-> FALSE,
        val |-> Str(<<"{">> \o MembersText(v.props, TRUE) \o <<"}">>)]
  ELSE [raised |-> FALSE, val |-> Str(ScalarText(v))]

\* JSON.parse of the texts JSONstringify produces
ParseScalar(toks) ==
  IF toks = <<"null">> THEN JNull
  ELSE IF toks \in {<<"true">>, <<"false">>} THEN JS("boolean", toks)
  ELSE IF Head(toks) = Quote
  THEN Str(Unescape(SubSeq(toks, 2, Len(toks) - 1)))
  ELSE IF Head(toks) = "["
  THEN Arr(SubSeq(toks, 2, Len(toks) - 1))
  ELSE IF Head(toks) = "{" THEN Obj(<<>>)
  ELSE JS("number", toks)

\* the index at which the value starting at index i of toks ends
ValueEnd(toks, i) ==
  IF toks[i] = Quote
  THEN CHOOSE j \in (i + 1) .. Len(toks) :
         /\ toks[j] = Quote
         /\ \A m \in (i + 1) .. (j - 1) : toks[m] # Quote
  ELSE IF toks[i] = "["
  THEN CHOOSE j \in (i + 1) .. Len(toks) :
         /\ toks[j] = "]"
         /\ \A m \in (i + 1) .. (j - 1) : toks[m] # "]"
  ELSE IF toks[i] = "{" THEN i + 1
  ELSE i

RECURSIVE ParseMembers(_)
ParseMembers(toks) ==
  IF toks = <<>> THEN <<>>
  ELSE LET ts == IF Head(toks) = "," THEN Tail(toks) ELSE toks
           e == ValueEnd(ts, 5)
       IN <<[k |-> ts[2], val |-> ParseScalar(SubSeq(ts, 5, e))]>>
          \o ParseMembers(SubSeq(ts, e + 1, Len(ts)))

JSONparse(toks) ==
  IF Len(toks) >= 2 /\ Head(toks) = "{" /\ toks[Len(toks)] = "}"
  THEN Obj(ParseMembers(SubSeq(toks, 2, Len(toks) - 1)))
  ELSE ParseScalar(toks)


(* --------------------------- input contracts --------------------------- *)
\* registration order of registerAllTools
ToolNames ==
  <<"create-pdf", "create-docx", "create-pptx",
    "read-pdf", "read-docx", "read-pptx">>
Tools == {ToolNames[i] : i \in 1 .. Len(ToolNames)}
ReadTools == {"read-pdf", "read-docx", "read-pptx"}

\* one top-level field of a z.object: z.string(), z.string().optional(),
\* z.enum(values).optional().default(dflt), z.array(item schema)
Field(name, kind) ==
  [name |-> name, kind |-> kind, values |-> {}, dflt |-> Undefined]
EnumField(name, values, dflt) ==
  [name |-> name, kind |-> "enum", values |-> values, dflt |-> Str(<<dflt>>)]

CreatePdfShape ==
  <<Field("title", "string"), Field("author", "optionalString"),
    Field("content", "array"), Field("outputPath", "optionalString"),
    EnumField("pageSize", {"A4", "Letter", "Legal"}, "A4")>>
CreateDocxShape ==
  <<Field("title", "string"), Field("author", "optionalString"),
    Field("content", "array"), Field("outputPath", "optionalString")>>
CreatePptxShape ==
  <<Field("title", "string"), Field("author", "optionalString"),
    Field("subject", "optionalString"), Field("slides", "array"),
    Field("outputPath", "optionalString")>>
ReadPdfShape ==
  <<Field("filePath", "optionalString"),
    Field("base64Content", "optionalString"),
    Field("prompt", "optionalString")>>
ReadDocxShape ==
  <<Field("filePath", "optionalString"),
    Field("base64Content", "optionalString"),
    EnumField("outputFormat", {"text", "html", "both"}, "both"),
    Field("prompt", "optionalString")>>
ReadPptxShape ==
  <<Field("filePath", "optionalString"),
    Field("base64Content", "optionalString"),
    Field("prompt", "optionalString")>>

Shape(tool) ==
  CASE tool = "create-pdf" -> CreatePdfShape
    [] tool = "create-docx" -> CreateDocxShape
    [] tool = "create-pptx" -> CreatePptxShape
    [] tool = "read-pdf" -> ReadPdfShape
    [] tool = "read-docx" -> ReadDocxShape
    [] tool = "read-pptx" -> ReadPptxShape

FieldNames(tool) == {Shape(tool)[i].name : i \in 1 .. Len(Shape(tool))}

RefineMessage == "Either filePath or base64Content must be provided"

\* .refine((data) => data.filePath || data.base64Content) of the read tools
RefineFilePathOnly(data) == Truthy(data["filePath"])
Refine(data) == Truthy(data["filePath"]) \/ Truthy(data["base64Content"])

\* the check of one field: the parsed value, or the message of its issue
ParseField(f, raw) ==
  CASE f.kind = "string" ->
         IF raw.t = "string" THEN [ok |-> TRUE, val |-> raw, msg |-> ""]
         ELSE IF raw.t = "undefined"
         THEN [ok |-> FALSE, val |-> raw, msg |-> "Required"]
         ELSE [ok |-> FALSE, val |-> raw, msg |-> "Expected string"]
    [] f.kind = "optionalString" ->
         IF raw.t \in {"string", "undefined"}
         THEN [ok |-> TRUE, val |-> raw, msg |-> ""]
         ELSE [ok |-> FALSE, val |-> raw, msg |-> "Expected string"]
    [] f.kind = "enum" ->
         IF raw.t = "undefined" THEN [ok |-> TRUE, val |-> f.dflt, msg |-> ""]
         ELSE IF raw.t = "string" /\ Len(raw.v) = 1 /\ raw.v[1] \in f.values
         THEN [ok |-> TRUE, val |-> raw, msg |-> ""]
         ELSE [ok |-> FALSE, val |-> raw, msg |-> "Invalid enum value"]
    [] f.kind = "array" ->
         IF raw.t = "undefined"
         THEN [ok |-> FALSE, val |-> raw, msg |-> "Required"]
         ELSE IF raw.t # "array"
         THEN [ok |-> FALSE, val |-> raw, msg |-> "Expected array"]
         ELSE IF raw.v # <<>>
         THEN [ok |-> FALSE, val |-> raw, msg |-> "Invalid input"]
         ELSE [ok |-> TRUE, val |-> raw, msg |-> ""]

RECURSIVE FieldIssues(_, _)
FieldIssues(shape, args) ==
  IF shape = <<>> THEN <<>>
  ELSE LET f == Head(shape)
           p == ParseField(f, args[f.name])
       IN (IF p.ok THEN <<>> ELSE <<[path |-> f.name, message |-> p.msg]>>)
          \o FieldIssues(Tail(shape), args)

\* schema.safeParse(args): the validated value (a new object: the declared
\* fields, defaults filled in), or the issues. The refinement runs only when
\* every field passed.
SafeParse(tool, args) ==
  LET issues == FieldIssues(Shape(tool), args)
      value == [n \in FieldNames(tool) |->
                  LET f == Shape(tool)[CHOOSE i \in 1 .. Len(Shape(tool)) :
                                         Shape(tool)[i].name = n]
                  IN ParseField(f, args[n]).val]
  IN IF issues # <<>>
     THEN [ok |-> FALSE, value |-> args, issues |-> issues]
     ELSE IF tool \in ReadTools /\ ~Refine(value)
     THEN [ok |-> FALSE, value |-> args,
           issues |-> <<[path |-> "", message |-> RefineMessage]>>]
     ELSE [ok |-> TRUE, value |-> value, issues |-> <<>>]

\* ZodError.message: the issues as JSON text
RECURSIVE IssuesText(_, _)
IssuesText(issues, first) ==
  IF issues = <<>> THEN <<>>
  ELSE (IF first THEN <<>> ELSE <<",">>)
       \o <<"{", Quote, "path", Quote, ":", Quote, Head(issues).path, Quote,
            ",", Quote, "message", Quote, ":", Quote, Head(issues).message,
            Quote, "}">>
       \o IssuesText(Tail(issues), FALSE)
ZodErrorMessage(issues) == <<"[">> \o IssuesText(issues, TRUE) \o <<"]">>

\* the raw values a caller may put in a field: absent, a string, or a value
\* of another type; the empty string for the fields whose emptiness the
\* read contracts look at
RawValues(f) ==
  CASE f.kind \in {"string", "optionalString"} ->
         {Undefined, Str(<<"a">>), Num("5")}
           \cup (IF f.name \in {"filePath", "base64Content"}
                 THEN {Str(<<>>)} ELSE {})
    [] f.kind = "enum" ->
         {Undefined, Str(<<"other">>)} \cup {Str(<<x>>) : x \in f.values}
    [] f.kind = "array" ->
         {Undefined, Arr(<<>>), Arr(<<"bad item">>), Num("5")}

\* a key no contract declares, which a caller may send along
UndeclaredKey == "extra"
RECURSIVE ArgsOver(_)
ArgsOver(shape) ==
  IF shape = <<>>
  THEN {[n \in {} |-> Undefined], [n \in {UndeclaredKey} |-> Str(<<"x">>)]}
  ELSE {[n \in (DOMAIN a) \cup {Head(shape).name} |->
           IF n = Head(shape).name THEN v ELSE a[n]] :
          a \in ArgsOver(Tail(shape)), v \in RawValues(Head(shape))}

RawArgs(tool) == ArgsOver(Shape(tool))

(* ----------------------- result envelope adapter ----------------------- *)
\* what a tool handler may do with a validated input: return a value
\* (a result object or anything else), throw before its first await, or
\* return a promise that rejects
ResultObjects ==
  {Obj(<<[k |-> "success", val |-> JTrue],
         [k |-> "message", val |-> Str(<<"created">>)],
         [k |-> "base64", val |-> Str(<<"JVBERi0=">>)]>>),
   Obj(<<[k |-> "success", val |-> JTrue],
         [k |-> "text", val |-> Str(<<"say ", Quote, "hi", Quote>>)]>>),
   Obj(<<[k |-> "success", val |-> JFalse],
         [k |-> "error", val |-> Str(<<"Failed to read file: ", "ENOENT">>)]>>),
   Obj(<<[k |-> "success", val |-> JFalse]>>)}
OtherReturns ==
  {Undefined, JNull, Num("5"), Str(<<"done">>), Obj(<<>>), Fn,
   Obj(<<[k |-> "success", val |-> JTrue], [k |-> "size", val |-> BigIntVal]>>)}
Thrown ==
  {ErrorObj(<<"EACCES: permission denied">>), ErrorObj(<<>>),
   Str(<<"oops">>), Undefined, Obj(<<>>), BareObj}
Behaviours ==
  {[kind |-> "return", value |-> v] : v \in ResultObjects \cup OtherReturns}
    \cup {[kind |-> k, value |-> v] : k \in {"throw", "reject"}, v \in Thrown}

TextPart(text) == [type |-> "text", text |-> text]
NoEnvelope == [content |-> <<>>, isError |-> FALSE]
Returned(env, n, ok) ==
  [completion |-> "return", envelope |-> env, thrown |-> Undefined,
   handlerCalls |-> n, validated |-> ok]
Raised(err, n, ok) ==
  [completion |-> "throw", envelope |-> NoEnvelope, thrown |-> err,
   handlerCalls |-> n, validated |-> ok]

\* the try block: schema.parse, await handler(validated), the envelope
TryBlockNoValidation(tool, args, beh) ==
  IF beh.kind # "return" THEN Raised(beh.value, 1, TRUE)
  ELSE Returned([content |-> <<TextPart(JSONstringify(beh.value).val)>>,
                 isError |-> ~Truthy(Get(beh.value, "success"))], 1, TRUE)
TryBlockErrorFlagFromCatch(tool, args, beh) ==
  LET parsed == SafeParse(tool, args)
  IN IF ~parsed.ok
     THEN Raised(ErrorObj(ZodErrorMessage(parsed.issues)), 0, FALSE)
     ELSE IF beh.kind # "return" THEN Raised(beh.value, 1, TRUE)
     ELSE IF ~Truthy(Get(beh.value, "success"))
     THEN Raised(ErrorObj(<<"Tool execution failed">>), 1, TRUE)
     ELSE Returned([content |-> <<TextPart(JSONstringify(beh.value).val)>>,
                    isError |-> FALSE], 1, TRUE)
TryBlock(tool, args, beh) ==
  LET parsed == SafeParse(tool, args)
      result == beh.value
      text == JSONstringify(result)
  IN IF ~parsed.ok
     THEN Raised(ErrorObj(ZodErrorMessage(parsed.issues)), 0, FALSE)
     ELSE IF beh.kind # "return" THEN Raised(result, 1, TRUE)
     ELSE IF text.raised THEN Raised(text.val, 1, TRUE)
     ELSE IF ~CanRead(result)
     THEN Raised(ErrorObj(ReadErrorMessage(result, "success")), 1, TRUE)
     ELSE Returned([content |-> <<TextPart(text.val)>>,
                    isError |-> ~Truthy(Get(result, "success"))], 1, TRUE)

\* the catch clause: error instanceof Error ? error.message : String(error)
CatchBlockGenericMessage(t) ==
  Returned([content |->
              <<TextPart(JSONstringify(
                  Obj(<<[k |-> "success", val |-> JFalse],
                        [k |-> "error",
                         val |-> Str(<<"Unknown error">>)]>>)).val)>>,
            isError |-> TRUE], t.handlerCalls, t.validated)
CatchBlock(t) ==
  LET error == t.thrown
      coerced == StringOf(error)
      message == IF error.t = "error" THEN error.v ELSE coerced.val
  IN IF error.t # "error" /\ coerced.raised
     THEN Raised(ErrorObj(coerced.val), t.handlerCalls, t.validated)
     ELSE Returned([content |->
                      <<TextPart(JSONstringify(
                          Obj(<<[k |-> "success", val |-> JFalse],
                                [k |-> "error", val |-> Str(message)]>>)).val)>>,
                    isError |-> TRUE], t.handlerCalls, t.validated)

\* register-tools.ts: the handler registered with server.tool
createHandler(tool, args, beh) ==
  LET t == TryBlock(tool, args, beh)
  IN IF t.completion = "throw" THEN CatchBlock(t) ELSE t

\* utils/tool-adapter.ts: the exported wrapper
wrapToolHandler(tool, args, beh) ==
  LET t == TryBlock(tool, args, beh)
  IN IF t.completion = "throw" THEN CatchBlock(t) ELSE t

\* the arguments of the handler invocations of one call: handler(validated)
HandlerInputRaw(tool, args) ==
  IF SafeParse(tool, args).ok THEN <<args>> ELSE <<>>
HandlerInput(tool, args) ==
  LET validated == SafeParse(tool, args)
  IN IF validated.ok THEN <<validated.value>> ELSE <<>>

\* one call of the handler registered with server.tool
CreateHandlerCall ==
  /\ call.kind = "none"
  /\ \E tool \in Tools : \E args \in RawArgs(tool) : \E beh \in Behaviours :
       call' = [kind |-> "call", adapter |-> "createHandler", tool |-> tool,
                args |-> args, beh |-> beh,
                received |-> HandlerInput(tool, args),
                out |-> createHandler(tool, args, beh)]
  /\ UNCHANGED httpVars

\* one call of a handler wrapped by wrapToolHandler
WrapToolHandlerCall ==
  /\ call.kind = "none"
  /\ \E tool \in Tools : \E args \in RawArgs(tool) : \E beh \in Behaviours :
       call' = [kind |-> "call", adapter |-> "wrapToolHandler", tool |-> tool,
                args |-> args, beh |-> beh,
                received |-> HandlerInput(tool, args),
                out |-> wrapToolHandler(tool, args, beh)]
  /\ UNCHANGED httpVars

NextAdapter ==
  \/ CreateHandlerCall
  \/ WrapToolHandlerCall

(* --------------------------- adapter claims ---------------------------- *)
IsCall == call.kind = "call"
CallParse == SafeParse(call.tool, call.args)
CallEnvelope == call.out.envelope
CallText == CallEnvelope.content[1].text

\* a response envelope: one content part of type text carrying a string,
\* and a boolean error flag
WellFormed(env) ==
  /\ Len(env.content) = 1
  /\ env.content[1].type = "text"
  /\ env.content[1].text.t = "string"
  /\ env.isError \in BOOLEAN

\* C2: for every registered tool and every raw input that fails its schema
\* (a field check or the whole-object refinement) the wrapped handler
\* returns an envelope with isError = true whose text is JSON with
\* success = false and the validation message, and the tool handler is not
\* invoked.
C2_InvalidInputIsErrorEnvelope ==
  (IsCall /\ ~CallParse.ok) =>
    /\ call.out.completion = "return"
    /\ WellFormed(CallEnvelope)
    /\ CallEnvelope.isError = TRUE
    /\ Get(JSONparse(CallText.v), "success") = JFalse
    /\ Get(JSONparse(CallText.v), "error")
         = Str(ZodErrorMessage(CallParse.issues))
    /\ call.out.handlerCalls = 0

C2_Witness ==
  /\ IsCall /\ ~CallParse.ok
  /\ call.tool \in ReadTools
  /\ CallParse.issues[1].message = RefineMessage
  /\ call.beh.kind = "return" /\ Get(call.beh.value, "success") = JTrue
  /\ call.out.completion = "return" /\ CallEnvelope.isError

\* C3 (as claimed): the adapter never raises: for any input and any handler
\* behaviour (return, synchronous throw, rejected promise, a returned value
\* that is no result object) the call returns a well-formed envelope.
C3_AdapterNeverRaises ==
  IsCall =>
    /\ call.out.completion = "return"
    /\ WellFormed(CallEnvelope)

C5_HandlerExceptionIsErrorEnvelope ==
  (IsCall /\ CallParse.ok /\ call.beh.kind \in {"throw", "reject"}) =>
    /\ call.out.completion = "return"
    /\ WellFormed(CallEnvelope)
    /\ CallEnvelope.isError = TRUE
    /\ JSONparse(CallText.v)
         = Obj(<<[k |-> "success", val |-> JFalse],
                 [k |-> "error",
                  val |-> Str(IF call.beh.value.t = "error"
                              THEN call.beh.value.v
                              ELSE StringOf(call.beh.value).val)]>>)

NonEmptyString(v) == v.t = "string" /\ v.v # <<>>

\* C6 (as claimed): for each read tool, input supplying neither filePath nor
\* base64Content fails validation with the message "Either filePath or
\* base64Content must be provided", and input supplying at least one of
\* them passes.
C6_AtLeastOneSupplied ==
  (IsCall /\ call.tool \in ReadTools) =>
    LET neither == /\ call.args["filePath"] = Undefined
                   /\ call.args["base64Content"] = Undefined
    IN /\ neither =>
            /\ ~CallParse.ok
            /\ \E i \in 1 .. Len(CallParse.issues) :
                 CallParse.issues[i].message = RefineMessage
       /\ ~neither => CallParse.ok

\* C6 (amended): for each read tool and every input whose fields pass the
\* per-field checks: if neither filePath nor base64Content is a non-empty
\* string, validation fails with exactly the message "Either filePath or
\* base64Content must be provided"; if at least one of them is a non-empty
\* string (both included), validation passes.
C6_AtLeastOneNonEmpty ==
  (IsCall /\ call.tool \in ReadTools
     /\ FieldIssues(Shape(call.tool), call.args) = <<>>) =>
    LET some == \/ NonEmptyString(call.args["filePath"])
                \/ NonEmptyString(call.args["base64Content"])
    IN /\ ~some =>
            /\ ~CallParse.ok
            /\ CallParse.issues = <<[path |-> "", message |-> RefineMessage]>>
            /\ call.out.validated = FALSE
       /\ some => (CallParse.ok /\ call.out.validated = TRUE)

C6_Witness ==
  /\ IsCall /\ call.tool \in ReadTools
  /\ call.args["filePath"] = Undefined
  /\ NonEmptyString(call.args["base64Content"])
  /\ call.out.validated = TRUE /\ call.out.handlerCalls = 1

FieldOf(tool, n) ==
  Shape(tool)[CHOOSE i \in 1 .. Len(Shape(tool)) : Shape(tool)[i].name = n]
\* the fields the raw input supplies
Supplied == {n \in DOMAIN call.args : call.args[n] # Undefined}
ValidatedCarries(names) ==
  \A n \in names :
    /\ n \in DOMAIN CallParse.value
    /\ CallParse.value[n] = call.args[n]
DefaultsFilled ==
  \A n \in FieldNames(call.tool) \ Supplied :
    CallParse.value[n] = FieldOf(call.tool, n).dflt
HandlerGotValidated ==
  /\ call.out.handlerCalls = 1
  /\ call.received = <<CallParse.value>>

Buffers ==
  {"pdf-text", "pdf-notext", "docx-text", "docx-empty",
   "pptx-slides", "pptx-noslides", "pk-corrupt", "junk", "empty"}
Signature(buf) ==
  CASE buf \in {"pdf-text", "pdf-notext"} -> "%PDF-"
    [] buf \in {"docx-text", "docx-empty", "pptx-slides", "pptx-noslides",
                "pk-corrupt"} -> "PK"
    [] OTHER -> ""
\* mammoth accepts a zip that holds a Word document
MammothAccepts(buf) == buf \in {"docx-text", "docx-empty"}
\* JSZip.loadAsync accepts every well-formed zip archive
JSZipAccepts(buf) ==
  buf \in {"docx-text", "docx-empty", "pptx-slides", "pptx-noslides"}
\* the text the extraction finds
TextOf(buf) ==
  IF buf \in {"pdf-text", "docx-text", "pptx-slides"} THEN "words" ELSE ""
\* the number of ppt/slides/slideN.xml entries
SlideCount(buf) == IF buf = "pptx-slides" THEN 1 ELSE 0

\* Buffer.from(text, "base64"): never throws; characters outside the
\* alphabet are skipped, so malformed text decodes to other (here no) bytes
Base64Of(buf) == Str(<<"b64:", buf>>)
MalformedBase64 == Str(<<"!!!">>)
BufferFromBase64AsUtf8(str) == "junk"
BufferFromBase64(str) ==
  IF Len(str.v) = 2 /\ str.v[1] = "b64:" THEN str.v[2] ELSE "empty"

\* the world a handler runs in: what fs.readFile gives for the path, what
\* fs.mkdir / writeFile do, process.env.GOOGLE_API_KEY, the AI provider
ReadFileOutcomes == {"ENOENT"} \cup Buffers
WriteOutcomes == {"ok", "ENOTDIR", "EACCES"}
ApiKeys == {"unset", "", "key"}
ProviderOutcomes == {"answers", "throws"}
\* process.env.OUTPUT_DIR: undefined, empty, or a directory
OutputDirs == {Undefined, Str(<<>>), Str(<<"/", "data">>)}
Env(file, write, key, provider, outputDir) ==
  [file |-> file, write |-> write, key |-> key, provider |-> provider,
   outputDir |-> outputDir]

\* paths are sequences of atoms; an absolute path starts with the separator
Cwd == <<"/", "cwd">>
isAbsolute(p) == p # <<>> /\ Head(p) = "/"
PathJoin(dir, p) == dir \o <<"/">> \o p
\* getOutputDir(): process.env.OUTPUT_DIR || process.cwd()
getOutputDir(env) == IF Truthy(env.outputDir) THEN env.outputDir.v ELSE Cwd

\* the result of a handler run: what it returned, or that it raised
NoAnalysis ==
  [present |-> FALSE, raised |-> FALSE, success |-> FALSE, msg |-> "",
   providerCalled |-> FALSE]
NoContent == [fields |-> {}, text |-> ""]
HandlerSuccess(content, ai) ==
  [raised |-> FALSE, success |-> TRUE, error |-> "", content |-> content,
   ai |-> [ai EXCEPT !.providerCalled = FALSE],
   providerCalled |-> ai.providerCalled,
   filePath |-> <<>>, written |-> <<>>, base64 |-> Undefined]
HandlerFailure(error, ai) ==
  [raised |-> FALSE, success |-> FALSE, error |-> error,
   content |-> NoContent, ai |-> NoAnalysis,
   providerCalled |-> ai.providerCalled,
   filePath |-> <<>>, written |-> <<>>, base64 |-> Undefined]
HandlerRaises(error) ==
  [raised |-> TRUE, success |-> FALSE, error |-> error,
   content |-> NoContent, ai |-> NoAnalysis, providerCalled |-> FALSE,
   filePath |-> <<>>, written |-> <<>>, base64 |-> Undefined]

\* lib/ai.ts getClient(): null when the key is undefined or empty
KeyUnsetMessage ==
  "GOOGLE_API_KEY environment variable is not set. AI analysis is unavailable."
getClient(env) == IF env.key \in {"unset", ""} THEN "null" ELSE "client"

\* lib/ai.ts analyzeDocument(content, mimeType, prompt)
analyzeDocumentRequiresKey(content, mimeType, prompt, env) ==
  IF getClient(env) = "null"
  THEN [present |-> TRUE, raised |-> TRUE, success |-> FALSE,
        msg |-> KeyUnsetMessage, providerCalled |-> FALSE]
  ELSE [present |-> TRUE, raised |-> FALSE, success |-> TRUE,
        msg |-> "analysis", providerCalled |-> TRUE]
analyzeDocument(content, mimeType, prompt, env) ==
  IF getClient(env) = "null"
  THEN [present |-> TRUE, raised |-> FALSE, success |-> FALSE,
        msg |-> KeyUnsetMessage, providerCalled |-> FALSE]
  ELSE IF env.provider = "throws"
  THEN [present |-> TRUE, raised |-> FALSE, success |-> FALSE,
        msg |-> "AI analysis failed: ", providerCalled |-> TRUE]
  ELSE [present |-> TRUE, raised |-> FALSE, success |-> TRUE,
        msg |-> "analysis", providerCalled |-> TRUE]

\* the first part of each read handler: the bytes from filePath, else from
\* base64Content
LoadBufferPrefersBase64(input, env) ==
  IF Truthy(input.base64Content)
  THEN [ok |-> TRUE, buf |-> BufferFromBase64(input.base64Content),
        error |-> ""]
  ELSE IF Truthy(input.filePath)
  THEN IF env.file = "ENOENT"
       THEN [ok |-> FALSE, buf |-> "empty", error |-> "Failed to read file: "]
       ELSE [ok |-> TRUE, buf |-> env.file, error |-> ""]
  ELSE [ok |-> FALSE, buf |-> "empty", error |-> RefineMessage]
LoadBuffer(input, env) ==
  IF Truthy(input.filePath)
  THEN IF env.file = "ENOENT"
       THEN [ok |-> FALSE, buf |-> "empty", error |-> "Failed to read file: "]
       ELSE [ok |-> TRUE, buf |-> env.file, error |-> ""]
  ELSE IF Truthy(input.base64Content)
  THEN [ok |-> TRUE, buf |-> BufferFromBase64(input.base64Content),
        error |-> ""]
  ELSE [ok |-> FALSE, buf |-> "empty", error |-> RefineMessage]

\* tools/read-pdf.ts handler
readPdfHandler(input, env) ==
  LET l == LoadBuffer(input, env)
  IN IF ~l.ok THEN HandlerFailure(l.error, NoAnalysis)
     ELSE IF Signature(l.buf) # "%PDF-"
     THEN HandlerFailure("Invalid PDF file: Missing %PDF header", NoAnalysis)
     ELSE LET extractedText == TextOf(l.buf)
              aiAnalysis ==
                IF Truthy(input.prompt)
                THEN analyzeDocument(l.buf, "application/pdf", input.prompt, env)
                ELSE NoAnalysis
          IN IF aiAnalysis.raised
             THEN HandlerFailure("Failed to parse PDF: ", aiAnalysis)
             ELSE HandlerSuccess(
                    [fields |-> {"metadata", "text", "note"},
                     text |-> IF extractedText # "" THEN extractedText
                              ELSE "[Text extraction limited]"],
                    aiAnalysis)

\* outputFormat === "text" || outputFormat === "both", and the same for html
wantsTextOnlyText(outputFormat) == outputFormat = "text"
wantsText(outputFormat) == outputFormat \in {"text", "both"}
wantsHtml(outputFormat) == outputFormat \in {"html", "both"}

\* tools/read-docx.ts handler
readDocxHandler(input, env) ==
  LET l == LoadBuffer(input, env)
      outputFormat == input.outputFormat
  IN IF ~l.ok THEN HandlerFailure(l.error, NoAnalysis)
     ELSE IF Signature(l.buf) # "PK"
     THEN HandlerFailure("Invalid DOCX file: Missing PK signature", NoAnalysis)
     ELSE IF ~MammothAccepts(l.buf)
     THEN HandlerFailure("Failed to parse DOCX: ", NoAnalysis)
     ELSE LET extractedTextForAI ==
                IF wantsText(outputFormat) \/ Truthy(input.prompt)
                THEN TextOf(l.buf) ELSE ""
              aiAnalysis ==
                IF Truthy(input.prompt) /\ extractedTextForAI # ""
                THEN analyzeDocument(extractedTextForAI, "text/plain",
                                     input.prompt, env)
                ELSE NoAnalysis
          IN IF aiAnalysis.raised
             THEN HandlerFailure("Failed to parse DOCX: ", aiAnalysis)
             ELSE HandlerSuccess(
                    [fields |->
                       (IF wantsText(outputFormat)
                        THEN {"text", "characterCount", "wordCount"} ELSE {})
                       \cup (IF wantsHtml(outputFormat)
                             THEN {"html", "messages"} ELSE {}),
                     text |-> IF wantsText(outputFormat)
                              THEN TextOf(l.buf) ELSE ""],
                    aiAnalysis)

\* tools/read-pptx.ts handler
readPptxHandler(input, env) ==
  LET l == LoadBuffer(input, env)
  IN IF ~l.ok THEN HandlerFailure(l.error, NoAnalysis)
     ELSE IF Signature(l.buf) # "PK"
     THEN HandlerFailure("Invalid PPTX file: Missing PK signature", NoAnalysis)
     ELSE IF ~JSZipAccepts(l.buf)
     THEN HandlerFailure("Failed to parse PPTX: ", NoAnalysis)
     ELSE LET fullText == IF SlideCount(l.buf) > 0 THEN "Slide 1:" ELSE ""
              aiAnalysis ==
                IF Truthy(input.prompt) /\ fullText # ""
                THEN analyzeDocument(fullText, "text/plain", input.prompt, env)
                ELSE NoAnalysis
          IN IF aiAnalysis.raised
             THEN HandlerFailure("Failed to parse PPTX: ", aiAnalysis)
             ELSE HandlerSuccess(
                    [fields |-> {"slideCount", "slides", "text"},
                     text |-> fullText],
                    aiAnalysis)

\* the end of each create handler: with an outputPath the directory is made
\* and the file written, outside any try; otherwise the bytes are returned
\* as base64. An image that cannot be embedded is replaced by a placeholder
\* text inside the handler's own try/catch, so it changes neither branch.
SaveOrEncodeAlwaysJoins(input, env, counts, bytes) ==
  IF Truthy(input.outputPath)
  THEN LET fullPath == PathJoin(getOutputDir(env), input.outputPath.v)
       IN IF env.write = "ok"
          THEN [HandlerSuccess([fields |-> {"message", "filePath"} \cup counts,
                                text |-> ""], NoAnalysis)
                  EXCEPT !.filePath = fullPath, !.written = fullPath]
          ELSE HandlerRaises(env.write)
  ELSE [HandlerSuccess([fields |-> {"message", "base64"} \cup counts,
                        text |-> ""], NoAnalysis)
          EXCEPT !.base64 = Base64Of(bytes)]
SaveOrEncode(input, env, counts, bytes) ==
  IF Truthy(input.outputPath)
  THEN LET outputPath == input.outputPath.v
           fullPath == IF isAbsolute(outputPath) THEN outputPath
                       ELSE PathJoin(getOutputDir(env), outputPath)
       IN IF env.write = "ok"
          THEN [HandlerSuccess([fields |-> {"message", "filePath"} \cup counts,
                                text |-> ""], NoAnalysis)
                  EXCEPT !.filePath = fullPath, !.written = fullPath]
          ELSE HandlerRaises(env.write)
  ELSE [HandlerSuccess([fields |-> {"message", "base64"} \cup counts,
                        text |-> ""], NoAnalysis)
          EXCEPT !.base64 = Base64Of(bytes)]
\* the bytes each create handler produces: a PDF file (pdfDoc.save()), a
\* Word document (Packer.toBuffer), a presentation of at least one slide
\* (pptx.write)
createPdfHandler(input, env) ==
  SaveOrEncode(input, env, {"pageCount"},
               IF input.text THEN "pdf-text" ELSE "pdf-notext")
createDocxHandler(input, env) ==
  SaveOrEncode(input, env, {},
               IF input.text THEN "docx-text" ELSE "docx-empty")
createPptxHandler(input, env) ==
  SaveOrEncode(input, env, {"slideCount"}, "pptx-slides")

ToolHandler(tool, input, env) ==
  CASE tool = "create-pdf" -> createPdfHandler(input, env)
    [] tool = "create-docx" -> createDocxHandler(input, env)
    [] tool = "create-pptx" -> createPptxHandler(input, env)
    [] tool = "read-pdf" -> readPdfHandler(input, env)
    [] tool = "read-docx" -> readDocxHandler(input, env)
    [] tool = "read-pptx" -> readPptxHandler(input, env)

\* validated inputs (z.infer<typeof schema>), by the fields the handlers
\* branch on
PathValues == {Undefined, Str(<<>>), Str(<<"doc">>)}
Base64Values ==
  {Undefined, Str(<<>>), MalformedBase64} \cup {Base64Of(b) : b \in Buffers}
PromptValues == {Undefined, Str(<<>>), Str(<<"summarise">>)}
ReadInputs(formats) ==
  {i \in [filePath : PathValues, base64Content : Base64Values,
          prompt : PromptValues, outputFormat : formats] : Refine(i)}
OutputPathValues ==
  {Undefined, Str(<<>>), Str(<<"out">>), Str(<<"/", "abs", "/", "out">>)}
CreateInputs ==
  [outputPath : OutputPathValues, image : {"none", "png", "not an image"},
   text : BOOLEAN]
ReadEnvs ==
  {Env(f, "ok", k, p, Undefined) :
     f \in ReadFileOutcomes, k \in ApiKeys, p \in ProviderOutcomes}
CreateEnvs ==
  {Env("ENOENT", w, "unset", "answers", d) :
     w \in WriteOutcomes, d \in OutputDirs}

Run(tool, input, env) ==
  [kind |-> "run", tool |-> tool, input |-> input, env |-> env,
   out |-> ToolHandler(tool, input, env)]

CreatePdfRun ==
  /\ call.kind = "none"
  /\ \E input \in CreateInputs : \E env \in CreateEnvs :
       call' = Run("create-pdf", input, env)
  /\ UNCHANGED httpVars
CreateDocxRun ==
  /\ call.kind = "none"
  /\ \E input \in CreateInputs : \E env \in CreateEnvs :
       call' = Run("create-docx", input, env)
  /\ UNCHANGED httpVars
CreatePptxRun ==
  /\ call.kind = "none"
  /\ \E input \in CreateInputs : \E env \in CreateEnvs :
       call' = Run("create-pptx", input, env)
  /\ UNCHANGED httpVars
ReadPdfRun ==
  /\ call.kind = "none"
  /\ \E input \in ReadInputs({"none"}) : \E env \in ReadEnvs :
       call' = Run("read-pdf", input, env)
  /\ UNCHANGED httpVars
ReadDocxRun ==
  /\ call.kind = "none"
  /\ \E input \in ReadInputs({"text", "html", "both"}) : \E env \in ReadEnvs :
       call' = Run("read-docx", input, env)
  /\ UNCHANGED httpVars
ReadPptxRun ==
  /\ call.kind = "none"
  /\ \E input \in ReadInputs({"none"}) : \E env \in ReadEnvs :
       call' = Run("read-pptx", input, env)
  /\ UNCHANGED httpVars

\* the workflow of the integration tests: the base64 a create tool returned
\* is passed as base64Content to the read tool of the same format
CreateTools == {"create-pdf", "create-docx", "create-pptx"}
ReaderOf(tool) ==
  CASE tool = "create-pdf" -> "read-pdf"
    [] tool = "create-docx" -> "read-docx"
    [] tool = "create-pptx" -> "read-pptx"
FormatsOf(tool) ==
  IF tool = "read-docx" THEN {"text", "html", "both"} ELSE {"none"}
ReadBack ==
  /\ call.kind = "run"
  /\ call.tool \in CreateTools
  /\ call.out.success
  /\ call.out.base64 # Undefined
  /\ \E prompt \in PromptValues : \E format \in FormatsOf(ReaderOf(call.tool)) :
     \E env \in ReadEnvs :
       LET input == [filePath |-> Undefined, base64Content |-> call.out.base64,
                     prompt |-> prompt, outputFormat |-> format]
       IN call' = [kind |-> "readback", tool |-> ReaderOf(call.tool),
                   input |-> input, env |-> env,
                   out |-> ToolHandler(ReaderOf(call.tool), input, env),
                   created |-> call.tool]
  /\ UNCHANGED httpVars

NextTools ==
  \/ ReadBack
  \/ CreatePdfRun
  \/ CreateDocxRun
  \/ CreatePptxRun
  \/ ReadPdfRun
  \/ ReadDocxRun
  \/ ReadPptxRun

(* ------------------------- tool handler claims ------------------------- *)
IsRun == call.kind = "run"
IsReadRun == IsRun /\ call.tool \in ReadTools
RunBuffer == LoadBuffer(call.input, call.env)
\* the failure conditions a caller must expect: a path that cannot be read
\* or written, encoded content that is no document, a malformed document
ExpectedFailure ==
  CASE call.tool = "read-pdf" ->
         ~RunBuffer.ok \/ Signature(RunBuffer.buf) # "%PDF-"
    [] call.tool = "read-docx" ->
         ~RunBuffer.ok \/ ~MammothAccepts(RunBuffer.buf)
    [] call.tool = "read-pptx" ->
         ~RunBuffer.ok \/ ~JSZipAccepts(RunBuffer.buf)
    [] OTHER -> Truthy(call.input.outputPath) /\ call.env.write # "ok"

\* C18 (as claimed): every document tool handler, given validated input,
\* reports expected failure conditions (bad file path, malformed encoded
\* content, malformed source document) by returning success=false with an
\* error string; it never raises for them.
C18_FailuresAreReturned ==
  (IsRun /\ ExpectedFailure) =>
    /\ ~call.out.raised
    /\ ~call.out.success
    /\ call.out.error # ""

\* the same run without a prompt
RunWithoutPrompt ==
  ToolHandler(call.tool, [call.input EXCEPT !.prompt = Undefined], call.env)
PromptAndNoKey ==
  IsReadRun /\ Truthy(call.input.prompt) /\ call.env.key = "unset"
FailedAnalysisCarried ==
  /\ call.out.ai.present
  /\ ~call.out.ai.success
  /\ call.out.ai.msg = KeyUnsetMessage
\* what the analysis is given: the bytes for read-pdf, the extracted text
\* for read-docx and read-pptx
HasTextToAnalyse ==
  CASE call.tool = "read-pdf" -> TRUE
    [] call.tool = "read-docx" -> TextOf(RunBuffer.buf) # ""
    [] call.tool = "read-pptx" -> SlideCount(RunBuffer.buf) > 0

\* C20 (as claimed): when a read tool is called with a prompt and
\* GOOGLE_API_KEY is not set, the analysis fails without raising and without
\* calling the provider, and the tool's own result is unaffected: it still
\* returns success=true with its extracted content, carrying the failed
\* analysis as aiAnalysis.
C20_FailedAnalysisAlwaysCarried ==
  PromptAndNoKey =>
    /\ ~call.out.raised
    /\ ~call.out.providerCalled
    /\ call.out.success = RunWithoutPrompt.success
    /\ call.out.content = RunWithoutPrompt.content
    /\ call.out.success => FailedAnalysisCarried

\* C20 (amended): under the same conditions nothing raises, the provider is
\* not called, and success and extracted content are those of the same call
\* without a prompt; a successful result carries the failed analysis as
\* aiAnalysis exactly when there is something to analyse (always for
\* read-pdf; for read-docx and read-pptx when the extracted text is not
\* empty), and carries no aiAnalysis otherwise.
C20_FailedAnalysisCarriedIfText ==
  PromptAndNoKey =>
    /\ ~call.out.raised
    /\ ~call.out.providerCalled
    /\ call.out.success = RunWithoutPrompt.success
    /\ call.out.content = RunWithoutPrompt.content
    /\ call.out.success =>
         /\ call.out.ai.present <=> HasTextToAnalyse
         /\ call.out.ai.present => FailedAnalysisCarried

C20_Witness ==
  /\ PromptAndNoKey
  /\ call.tool = "read-docx"
  /\ call.out.success
  /\ FailedAnalysisCarried
  /\ call.out.content.text = "words"

IsCreateRun == IsRun /\ call.tool \in CreateTools
ResultFields == call.out.content.fields
\* the path the claim expects for a supplied outputPath
ExpectedPath ==
  LET p == call.input.outputPath.v
      dir == IF call.env.outputDir \in {Undefined, Str(<<>>)} THEN Cwd
             ELSE call.env.outputDir.v
  IN IF Head(p) = "/" THEN p ELSE dir \o <<"/">> \o p
FileXorBase64 ==
  /\ ("filePath" \in ResultFields) # ("base64" \in ResultFields)
  /\ "filePath" \in ResultFields =>
       /\ call.out.written = call.out.filePath
       /\ call.out.filePath = ExpectedPath
       /\ call.out.base64 = Undefined
  /\ "base64" \in ResultFields =>
       /\ call.out.written = <<>>
       /\ call.out.base64 # Undefined

IsReadBack == call.kind = "readback"
IsReadDocxRun == IsRun /\ call.tool = "read-docx"
\* the validated outputFormat of a call that does not give one
DefaultOutputFormat == ParseField(ReadDocxShape[3], Undefined)
BothSupplied ==
  IsReadRun /\ Truthy(call.input.filePath) /\ Truthy(call.input.base64Content)
\* C30: for each read tool, when both filePath and base64Content are
\* supplied (non-empty), the document is read from filePath only and
\* base64Content is ignored: a file-read failure returns success = false
\* without falling back to base64Content, and base64Content is used only
\* when filePath is absent or empty.
C30_FilePathTakesPrecedence ==
  /\ BothSupplied =>
       /\ call.out = ToolHandler(call.tool,
                                 [call.input EXCEPT !.base64Content = Undefined],
                                 call.env)
       /\ call.env.file = "ENOENT" =>
            /\ ~call.out.raised
            /\ ~call.out.success
            /\ call.out.error = "Failed to read file: "
  /\ (IsReadRun /\ ~Truthy(call.input.filePath)) =>
       \A f \in ReadFileOutcomes :
         call.out = ToolHandler(call.tool, call.input,
                                [call.env EXCEPT !.file = f])

C30_Witness ==
  /\ BothSupplied
  /\ call.tool = "read-pdf"
  /\ call.input.base64Content = Base64Of("pdf-text")
  /\ call.env.file = "ENOENT"
  /\ ~call.out.success
  /\ call.out.error = "Failed to read file: "

(* ------------------------- closed value sets --------------------------- *)
\* the number literals used as heading levels, and the value of each in
\* tenths (2.5 is 25)
NumberTokens ==
  <<"-1", "0", "0.5", "0.9", "1", "1.5", "2", "2.5", "3", "3.5", "4", "4.5",
    "5", "5.5", "6", "6.1", "6.5", "7">>
TenthsOfTokens ==
  <<-10, 0, 5, 9, 10, 15, 20, 25, 30, 35, 40, 45, 50, 55, 60, 61, 65, 70>>
Tenths(num) ==
  TenthsOfTokens[CHOOSE i \in 1 .. Len(NumberTokens) : NumberTokens[i] = num.v[1]]
NaN == Num("NaN")
IsInteger(num) == Tenths(num) % 10 = 0

\* HeadingContentSchema.level: z.number().min(1).max(6).default(1)
HeadingLevelSchema(raw) ==
  CASE raw.t = "undefined" -> [ok |-> TRUE, val |-> Num("1"), msg |-> ""]
    [] raw.t # "number" ->
         [ok |-> FALSE, val |-> raw, msg |-> "Expected number"]
    [] raw = NaN ->
         [ok |-> FALSE, val |-> raw, msg |-> "Expected number, received nan"]
    [] Tenths(raw) < 10 ->
         [ok |-> FALSE, val |-> raw,
          msg |-> "Number must be greater than or equal to 1"]
    [] Tenths(raw) > 60 ->
         [ok |-> FALSE, val |-> raw,
          msg |-> "Number must be less than or equal to 6"]
    [] OTHER -> [ok |-> TRUE, val |-> raw, msg |-> ""]

\* schema.pageSize of create-pdf: z.enum([...]).optional().default("A4")
PageSizeField == CreatePdfShape[5]
PageSizes == {"A4", "Letter", "Legal"}

\* sizes[level] / levels[level]: the property named by the number, present
\* for the keys 1 .. 6 only
HasLevelKey(level) ==
  level # NaN /\ IsInteger(level) /\ (Tenths(level) \div 10) \in 1 .. 6
\* create-pdf getPageDimensions(pageSize): sizes[pageSize] || sizes.A4
getPageDimensions(pageSize) ==
  IF pageSize \in PageSizes
  THEN [val |-> pageSize, fallback |-> FALSE]
  ELSE [val |-> "A4", fallback |-> TRUE]
\* create-pdf getHeadingSize(level): sizes[level] || 12
getHeadingSize(level) ==
  IF HasLevelKey(level)
  THEN [val |-> <<24, 20, 18, 16, 14, 12>>[Tenths(level) \div 10],
        fallback |-> FALSE]
  ELSE [val |-> 12, fallback |-> TRUE]
\* create-docx getHeadingLevel(level): levels[level] || HeadingLevel.HEADING_1
getHeadingLevel(level) ==
  IF HasLevelKey(level)
  THEN [val |-> Tenths(level) \div 10, fallback |-> FALSE]
  ELSE [val |-> 1, fallback |-> TRUE]

\* the raw level of a heading item in the arguments of a call
RawLevels ==
  {Undefined, JNull, NaN, Str(<<"2">>)}
    \cup {Num(NumberTokens[i]) : i \in 1 .. Len(NumberTokens)}

\* create-pdf called with one heading item: validation, then the lookups of
\* the handler when validation passed
CreatePdfHeading ==
  /\ call.kind = "none"
  /\ \E rawPageSize \in RawValues(PageSizeField) : \E rawLevel \in RawLevels :
       LET p == ParseField(PageSizeField, rawPageSize)
           l == HeadingLevelSchema(rawLevel)
           valid == p.ok /\ l.ok
       IN call' = [kind |-> "heading", tool |-> "create-pdf",
                   pageSize |-> rawPageSize, level |-> rawLevel,
                   valid |-> valid,
                   pageFallback |->
                     valid /\ getPageDimensions(p.val.v[1]).fallback,
                   levelFallback |-> valid /\ getHeadingSize(l.val).fallback,
                   used |-> IF valid THEN getHeadingSize(l.val).val ELSE 0]
  /\ UNCHANGED httpVars

\* create-docx called with one heading item
CreateDocxHeading ==
  /\ call.kind = "none"
  /\ \E rawLevel \in RawLevels :
       LET l == HeadingLevelSchema(rawLevel)
           valid == l.ok
       IN call' = [kind |-> "heading", tool |-> "create-docx",
                   pageSize |-> Undefined, level |-> rawLevel,
                   valid |-> valid,
                   pageFallback |-> FALSE,
                   levelFallback |-> valid /\ getHeadingLevel(l.val).fallback,
                   used |-> IF valid THEN getHeadingLevel(l.val).val ELSE 0]
  /\ UNCHANGED httpVars

NextClosedSets ==
  \/ CreatePdfHeading
  \/ CreateDocxHeading

\* C19 (as claimed): closed value sets are enforced by validation and never
\* clamped or defaulted: a create-pdf pageSize outside {A4, Letter, Legal}
\* and a heading level outside {1,2,3,4,5,6} (create-pdf and create-docx)
\* fail validation, so the handler's fallback branches (A4 dimensions,
\* size 12 / HEADING_1) are never taken for a validated input.
IsHeading == call.kind = "heading"
PageSizeOutside ==
  /\ call.pageSize # Undefined
  /\ ~(call.pageSize.t = "string" /\ Len(call.pageSize.v) = 1
         /\ call.pageSize.v[1] \in PageSizes)
LevelOutside ==
  /\ call.level # Undefined
  /\ ~(call.level.t = "number" /\ HasLevelKey(call.level))
C19_ClosedSetsEnforced ==
  IsHeading =>
    /\ PageSizeOutside => ~call.valid
    /\ LevelOutside => ~call.valid
    /\ call.valid => (~call.pageFallback /\ ~call.levelFallback)

(* ---------------------------- stdio server ----------------------------- *)
\* the two output streams of the process: each write is tagged with what it
\* is, a protocol message of the transport or a diagnostic line
BannerRunning == "Documents MCP Server running on STDIO"
BannerTools ==
  "Available tools: create-pdf, create-docx, create-pptx, read-pdf, read-docx, read-pptx"
FatalLine == "Fatal error starting Documents MCP Server:"

\* console.log writes to stdout, console.error to stderr
ConsoleLog(io, text) ==
  [io EXCEPT !.stdout = Append(@, [kind |-> "diagnostic", text |-> <<text>>])]
ConsoleError(io, text) ==
  [io EXCEPT !.stderr = Append(@, [kind |-> "diagnostic", text |-> <<text>>])]
\* the StdioServerTransport writes each reply of the protocol server as one
\* line on stdout
TransportSend(io, msg) ==
  [io EXCEPT !.stdout = Append(@, [kind |-> "protocol", text |-> msg])]

\* the request lines a client writes on stdin
StdioRequests ==
  {<<"initialize">>, <<"tools/list">>} \cup {<<"tools/call", t>> : t \in Tools}
\* what the code of this repository writes while a request is served: the
\* adapter and the six handlers contain no console or stream write
HandlerWrites(io, req) == io

\* main(): the server and the transport are created, connect is awaited
StdioMain ==
  /\ call.kind = "none"
  /\ call' = [kind |-> "stdio", pc |-> "connecting", served |-> 0,
              io |-> [stdout |-> <<>>, stderr |-> <<>>]]
  /\ UNCHANGED httpVars

\* await server.connect(transport) resolves: the two banner lines
StdioConnected ==
  /\ call.kind = "stdio" /\ call.pc = "connecting"
  /\ call' = [call EXCEPT
               !.pc = "running",
               !.io = ConsoleError(ConsoleError(@, BannerRunning), BannerTools)]
  /\ UNCHANGED httpVars

\* main() rejects: the handler of main().catch logs and exits with code 1
StdioFatal ==
  /\ call.kind = "stdio" /\ call.pc = "connecting"
  /\ call' = [call EXCEPT !.pc = "exited", !.io = ConsoleError(@, FatalLine)]
  /\ UNCHANGED httpVars

\* one request line arrives on stdin and is answered
StdioRequest ==
  /\ call.kind = "stdio" /\ call.pc = "running"
  /\ call.served < MaxLines
  /\ \E req \in StdioRequests :
       call' = [call EXCEPT
                  !.served = @ + 1,
                  !.io = TransportSend(HandlerWrites(@, req), req)]
  /\ UNCHANGED httpVars

NextStdio ==
  \/ StdioMain
  \/ StdioConnected
  \/ StdioFatal
  \/ StdioRequest

\* C14: in the stdio server every diagnostic or log write (startup banner,
\* fatal error) goes to stderr; in any run the bytes written to stdout
\* consist only of protocol replies, one per request served.
IsStdio == call.kind = "stdio"
DiagnosticsOn(stream) ==
  {stream[i].text : i \in {j \in 1 .. Len(stream) : stream[j].kind = "diagnostic"}}
C14_StdoutIsProtocolOnly ==
  IsStdio =>
    /\ \A i \in 1 .. Len(call.io.stdout) : call.io.stdout[i].kind = "protocol"
    /\ Len(call.io.stdout) = call.served
    /\ call.pc = "running" =>
         DiagnosticsOn(call.io.stderr) = {<<BannerRunning>>, <<BannerTools>>}
    /\ call.pc = "exited" => DiagnosticsOn(call.io.stderr) = {<<FatalLine>>}

C14_Witness ==
  /\ IsStdio /\ call.pc = "running"
  /\ call.served = 2
  /\ Len(call.io.stdout) = 2
  /\ Len(call.io.stderr) = 2


(* ------------------------------ client --------------------------------- *)
\* src/client/index.ts DocumentsMcpClient. The client is the record
\*   options    the constructor argument (transport kind, url given or not)
\*   connected  this.connected
\*   transport  this.transport: 0 is null, n the n-th transport created
\*   created    the number of transports constructed so far
\*   live       the transports started by client.connect and not yet closed
\*   pending    the transports whose client.connect has not settled
\*   closing    a disconnect() is awaiting client.close()
\*   closed     the number of completed disconnects
\*   sent       the number of requests sent to the server
\*   calls      the number of method calls made
\*   last       what the last method call did
\*   settled    how the last awaited connect or close settled
NotConnectedMessage == "Client is not connected. Call connect() first."
UrlRequiredMessage == "URL is required for SSE transport"
UnknownTransportMessage == "Unknown transport: "

ClientOptions ==
  [transport : {"stdio", "sse", "websocket"}, url : {"unset", "http://host/sse"}]

\* the convenience methods and the tool each one names
ConvenienceTool(op) ==
  CASE op = "createPdf" -> "create-pdf"
    [] op = "createDocx" -> "create-docx"
    [] op = "createPptx" -> "create-pptx"
    [] op = "readPdf" -> "read-pdf"
    [] op = "readDocx" -> "read-docx"
    [] op = "readPptx" -> "read-pptx"
ConvenienceOps ==
  {"createPdf", "createDocx", "createPptx", "readPdf", "readDocx", "readPptx"}
ToolOps == {"listTools", "callTool"} \cup ConvenienceOps

NoResult == [success |-> Undefined, content |-> Undefined]
NoResponse == NoEnvelope
Last(op, outcome, error, pre) ==
  [op |-> op, outcome |-> outcome, error |-> error,
   wasConnected |-> pre.connected, preTransport |-> pre.transport,
   preCreated |-> pre.created, preSent |-> pre.sent,
   response |-> NoResponse, result |-> NoResult]

\* new DocumentsMcpClient(options)
NewClientRecord(options) ==
  [kind |-> "client", options |-> options, connected |-> FALSE,
   transport |-> 0, created |-> 0, live |-> {}, pending |-> {},
   closing |-> FALSE, closed |-> 0, sent |-> 0, calls |-> 0,
   settled |-> "none",
   last |-> [op |-> "new", outcome |-> "returned", error |-> "",
             wasConnected |-> FALSE, preTransport |-> 0, preCreated |-> 0,
             preSent |-> 0, response |-> NoResponse, result |-> NoResult]]

\* ensureConnected(): the message it throws, "" when it returns
ensureConnectedAlwaysPasses(c) == ""
ensureConnected(c) == IF ~c.connected THEN NotConnectedMessage ELSE ""

\* JSON.parse raises a SyntaxError on text that is no JSON value
JSONLiterals == {"null", "true", "false", "5", "1"}
JSONparseThrows(toks) ==
  \/ toks = <<>>
  \/ /\ Head(toks) \notin {"{", "[", Quote}
     /\ ~(Len(toks) = 1 /\ Head(toks) \in JSONLiterals)

\* callTool after the await: the ToolCallResult made of the server's response
FirstText(content) ==
  IF \E i \in 1 .. Len(content) : content[i].type = "text"
  THEN content[CHOOSE i \in 1 .. Len(content) :
                 /\ content[i].type = "text"
                 /\ \A j \in 1 .. (i - 1) : content[j].type # "text"]
  ELSE [type |-> "none", text |-> Undefined]
ToolCallResult(response) ==
  LET textContent == FirstText(response.content)
  IN IF textContent.type = "text"
     THEN IF textContent.text.t # "string" \/ JSONparseThrows(textContent.text.v)
          THEN [success |-> JTrue, content |-> textContent.text]
          ELSE LET parsed == JSONparse(textContent.text.v)
               IN IF ~CanRead(parsed)
                  THEN [success |-> JTrue, content |-> textContent.text]
                  ELSE [success |->
                          IF Get(parsed, "success").t \in {"undefined", "null"}
                          THEN JTrue ELSE Get(parsed, "success"),
                        content |-> parsed]
     ELSE [success |-> JTrue, content |-> Undefined]

\* the responses a server gives to tools/call: the envelopes createHandler
\* returns, and the plain-text error a protocol server answers by itself
ClientArgs ==
  {[n \in FieldNames("read-pdf") |-> Undefined],
   [n \in FieldNames("read-pdf") |->
      IF n = "filePath" THEN Str(<<"a">>) ELSE Undefined]}
HandlerResponses ==
  {o.envelope :
     o \in {x \in {createHandler("read-pdf", a, b) :
                     a \in ClientArgs, b \in Behaviours} :
              x.completion = "return"}}
ProtocolErrorResponse ==
  [content |-> <<TextPart(Str(<<"Tool read-pdf not found">>))>>,
   isError |-> TRUE]
ServerResponses == HandlerResponses \cup {ProtocolErrorResponse}

\* connect(), up to its await
connect(c) ==
  LET n == c.created + 1
      started == [c EXCEPT !.transport = n, !.created = n,
                           !.live = @ \cup {n}, !.pending = @ \cup {n},
                           !.last = Last("connect", "awaiting", "", c)]
  IN IF c.connected THEN [c EXCEPT !.last = Last("connect", "noop", "", c)]
     ELSE IF c.options.transport = "stdio" THEN started
     ELSE IF c.options.transport = "sse"
     THEN IF c.options.url = "unset"
          THEN [c EXCEPT !.last = Last("connect", "threw", UrlRequiredMessage, c)]
          ELSE started
     ELSE [c EXCEPT
             !.last = Last("connect", "threw", UnknownTransportMessage, c)]

\* disconnect(), up to its await
disconnect(c) ==
  IF ~c.connected THEN [c EXCEPT !.last = Last("disconnect", "noop", "", c)]
  ELSE [c EXCEPT !.closing = TRUE,
                 !.last = Last("disconnect", "awaiting", "", c)]

IsClient == call.kind = "client"

ClientNew ==
  /\ call.kind = "none"
  /\ \E options \in ClientOptions : call' = NewClientRecord(options)
  /\ UNCHANGED httpVars

ClientConnect ==
  /\ IsClient /\ call.calls < MaxCalls
  /\ call' = [connect(call) EXCEPT !.calls = @ + 1]
  /\ UNCHANGED httpVars

\* await this.client.connect(this.transport) resolves
ClientConnectResolves ==
  /\ IsClient
  /\ \E t \in call.pending :
       call' = [call EXCEPT !.pending = @ \ {t}, !.connected = TRUE,
                            !.settled = "connect resolved"]
  /\ UNCHANGED httpVars

\* await this.client.connect(this.transport) rejects: connect() rejects
ClientConnectRejects ==
  /\ IsClient
  /\ \E t \in call.pending :
       call' = [call EXCEPT !.pending = @ \ {t}, !.live = @ \ {t},
                            !.settled = "connect rejected"]
  /\ UNCHANGED httpVars

ClientDisconnect ==
  /\ IsClient /\ call.calls < MaxCalls
  /\ call' = [disconnect(call) EXCEPT !.calls = @ + 1]
  /\ UNCHANGED httpVars

\* await this.client.close() resolves
ClientCloseResolves ==
  /\ IsClient /\ call.closing
  /\ call' = [call EXCEPT !.closing = FALSE, !.connected = FALSE,
                          !.transport = 0, !.live = @ \ {call.transport},
                          !.closed = @ + 1, !.settled = "close resolved"]
  /\ UNCHANGED httpVars

\* await this.client.close() rejects: disconnect() rejects
ClientCloseRejects ==
  /\ IsClient /\ call.closing
  /\ call' = [call EXCEPT !.closing = FALSE, !.settled = "close rejected"]
  /\ UNCHANGED httpVars

\* listTools, callTool or a convenience method, with the server's answer
ClientToolCall ==
  /\ IsClient /\ call.calls < MaxCalls
  /\ \E op \in ToolOps :
       LET message == ensureConnected(call)
       IN IF message # ""
          THEN call' = [call EXCEPT !.calls = @ + 1,
                                    !.last = Last(op, "threw", message, call)]
          ELSE \E response \in ServerResponses :
                 call' = [call EXCEPT
                            !.calls = @ + 1,
                            !.sent = @ + 1,
                            !.last = [Last(op, "returned", "", call) EXCEPT
                                        !.response = response,
                                        !.result =
                                          IF op = "listTools" THEN NoResult
                                          ELSE ToolCallResult(response)]]
  /\ UNCHANGED httpVars

NextClient ==
  \/ ClientNew
  \/ ClientConnect
  \/ ClientConnectResolves
  \/ ClientConnectRejects
  \/ ClientDisconnect
  \/ ClientCloseResolves
  \/ ClientCloseRejects
  \/ ClientToolCall

(* --------------------------- client claims ----------------------------- *)
\* C23: listTools, callTool and every convenience method called while the
\* client is not connected (never connected, connect failed, after
\* disconnect) fail with "Client is not connected. Call connect() first."
\* and send nothing to the server.
C23_NotConnectedFails ==
  (IsClient /\ call.last.op \in ToolOps /\ ~call.last.wasConnected) =>
    /\ call.last.outcome = "threw"
    /\ call.last.error = NotConnectedMessage
    /\ call.last.response = NoResponse
    /\ call.sent = call.last.preSent

C23_Witness ==
  /\ IsClient /\ call.last.op \in ConvenienceOps
  /\ ~call.last.wasConnected
  /\ call.closed = 1
  /\ call.last.error = NotConnectedMessage

\* C27 (as claimed): callTool never reports success=true for a server
\* response that signals an error: whenever the response has isError=true,
\* the returned ToolCallResult has success=false.
C27_ErrorIsNeverSuccess ==
  (IsClient /\ call.last.op \in ToolOps \ {"listTools"}
     /\ call.last.outcome = "returned" /\ call.last.response.isError) =>
    call.last.result.success = JFalse

\* C28 (as claimed): two overlapping connect() calls create at most one
\* transport and open at most one underlying connection; connect() on a
\* connected client is a no-op.
C28_OverlappingConnectsShareTransport ==
  IsClient =>
    /\ Cardinality(call.live) <= 1
    /\ Cardinality(call.pending) <= 1
    /\ (call.last.op = "connect" /\ call.last.wasConnected) =>
         (call.last.outcome = "noop" /\ call.created = call.last.preCreated)

\* C29 (as claimed): a connect() that fails leaves the client in its
\* pre-call state, so that transport is non-null exactly when connected is
\* true in every reachable state.
C29_TransportIffConnected ==
  IsClient =>
    /\ (call.transport # 0) <=> call.connected
    /\ (call.last.op = "connect" /\ call.last.outcome = "threw")
         => (call.transport = call.last.preTransport
               /\ call.connected = call.last.wasConnected)
    /\ (call.settled = "connect rejected" /\ ~call.connected)
         => call.transport = 0


CallInit == call = [kind |-> "none"]

Init == HttpInit /\ CallInit

Next ==
  \/ SseOpen
  \/ \E c \in 1 .. MaxConns : SseClose(c)
  \/ \E sid \in SidInputs : PostMessages(sid)
  \/ \E r \in 1 .. MaxReqs : HandlePostMessageReturns(r)
  \/ \E r \in 1 .. MaxReqs : HandlePostMessageThrows(r)
  \/ \E r \in 1 .. MaxReqs : ToolHandlerCompletes(r)
  \/ Health

Spec == Init /\ [][Next]_vars

SpecAdapter == Init /\ [][NextAdapter]_vars

SpecStdio == Init /\ [][NextStdio]_vars

SpecTools == Init /\ [][NextTools]_vars

SpecClosedSets == Init /\ [][NextClosedSets]_vars

SpecClient == Init /\ [][NextClient]_vars

====
